---- MODULE Spec2Model ----
(***************************************************************************)
(* Model of onkyo_serial/onkyo.py: the background worker that frames,      *)
(* decodes and publishes receiver notifications, and the per-zone          *)
(* OnkyoSerial controllers that write commands and cache the last state.   *)
(*                                                                         *)
(* Text is modelled by TLA+ strings, one character per byte.  Two bytes    *)
(* have no TLA+ literal and are written with a stand-in character that     *)
(* occurs nowhere else in the model: SUB (0x1A) and BADBYTE (a byte that   *)
(* is not valid UTF-8, e.g. 0xFF).                                         *)
(***************************************************************************)
EXTENDS Integers, Sequences, FiniteSets, TLC

VARIABLES
    config,         \* the configuration mapping handed to every constructor
    ports,          \* Serial objects created so far: ports[i] = is_open
    serial,         \* OnkyoSerial._serial (class attribute): 0 = None, else a port
    workers,        \* OnkyoBackgroundWorker threads created: [port, state, exc],
                    \* exc the exception that ended the thread
    worker_thread,  \* OnkyoSerial._worker_thread (class attribute): 0 = None
    handlers,       \* OnkyoBackgroundWorker.state_changed: subscribed controllers
    ctl,            \* OnkyoSerial instances: [zone, power, volume, source, mute]
    pc,             \* per caller thread: position inside OnkyoSerial.__init__
    self,           \* per caller thread: the instance under construction
    last            \* the step just taken: operation, inputs, bytes written,
                    \* events published (and by the iteration before it)

vars == <<config, ports, serial, workers, worker_thread, handlers, ctl, pc, self, last>>

----------------------------------------------------------------------------
(* Bounds of the model.                                                    *)

MaxControllers == 2     \* OnkyoSerial instances constructed in one run
MaxLevel == 257         \* the largest level handed to volume()

----------------------------------------------------------------------------
(* Text helpers.                                                           *)

SUB == "~"              \* stands for byte 0x1A, the frame sentinel
BADBYTE == "@"          \* stands for a byte that is not valid UTF-8
CR == "\r"
LF == "\n"

Ch(s, i) == SubSeq(s, i, i)

UpperLetters == "ABCDEFGHIJKLMNOPQRSTUVWXYZ"
LowerLetters == "abcdefghijklmnopqrstuvwxyz"
HexDigits == "0123456789ABCDEF"
LowerHexDigits == "0123456789abcdef"

IndexOf(c, alphabet) ==
    IF \E i \in 1..Len(alphabet) : Ch(alphabet, i) = c
    THEN CHOOSE i \in 1..Len(alphabet) : Ch(alphabet, i) = c
    ELSE 0

IsUpper(c) == IndexOf(c, UpperLetters) # 0

\* str.upper(), character by character
RECURSIVE upper(_)
upper(s) ==
    IF s = "" THEN ""
    ELSE LET c == Ch(s, 1)
             k == IndexOf(c, LowerLetters)
         IN  (IF k # 0 THEN Ch(UpperLetters, k) ELSE c) \o upper(SubSeq(s, 2, Len(s)))

\* str.lower(), used to enumerate the spellings of a name
RECURSIVE lower(_)
lower(s) ==
    IF s = "" THEN ""
    ELSE LET c == Ch(s, 1)
             k == IndexOf(c, UpperLetters)
         IN  (IF k # 0 THEN Ch(LowerLetters, k) ELSE c) \o lower(SubSeq(s, 2, Len(s)))

\* str.split(','): the sequence of fields between commas
RECURSIVE SplitFrom(_, _, _)
SplitFrom(s, i, cur) ==
    IF i > Len(s) THEN <<cur>>
    ELSE IF Ch(s, i) = "," THEN <<cur>> \o SplitFrom(s, i + 1, "")
    ELSE SplitFrom(s, i + 1, cur \o Ch(s, i))

split(s) == SplitFrom(s, 1, "")

\* Python values: None, bool, int, str
PyNone == [t |-> "NoneType"]
PyBool(b) == [t |-> "bool", b |-> b]
PyInt(n) == [t |-> "int", n |-> n]
PyStr(s) == [t |-> "str", s |-> s]
\* the outcome of a call that raised
Raised(e) == [t |-> "raise", exc |-> e]
IsRaised(v) == v.t = "raise"

\* truth value of a Python object (None and '' are false)
Truthy(v) == v # PyNone /\ v # PyStr("")

----------------------------------------------------------------------------
(* SOURCES, in dictionary order.                                           *)

SOURCES == <<
    <<"00", "VIDEO1,VCR/DVR,STB/DVR">>,
    <<"01", "VIDEO2,CBL/SAT">>,
    <<"02", "VIDEO3,GAME/TV,GAME,GAME1">>,
    <<"03", "VIDEO4,AUX1,AUX">>,
    <<"04", "VIDEO5,AUX2,GAME2">>,
    <<"05", "VIDEO6,PC">>,
    <<"06", "VIDEO7">>,
    <<"07", "HIDDEN1,EXTRA1">>,
    <<"08", "HIDDEN2,EXTRA2">>,
    <<"09", "HIDDEN3,EXTRA3">>,
    <<"10", "DVD,BD/DVD">>,
    <<"20", "TAPE,TV/TAPE">>,
    <<"21", "TAPE2">>,
    <<"22", "PHONO">>,
    <<"23", "CD,TV/CD">>,
    <<"24", "FM">>,
    <<"25", "AM">>,
    <<"26", "TUNER">>,
    <<"27", "MUSIC SERVER,P4S,DLNA*2">>,
    <<"28", "INTERNET RADIO,IRADIO FAVORITE*3">>,
    <<"29", "USB/USB (FRONT)">>,
    <<"2A", "USB (REAR)">>,
    <<"2B", "NETWORK,NET">>,
    <<"2C", "USB (TOGGLE)">>,
    <<"2D", "AIPLAY">>,
    <<"40", "UNIVERSALPORT">>,
    <<"30", "MULTICH">>,
    <<"31", "XM*1">>,
    <<"32", "SIRIUS*1">>,
    <<"33", "DAB*5">>
>>

\* dict lookup d[key] on a sequence of <<key, value>> pairs; KeyError if absent
HasKey(d, key) == \E i \in 1..Len(d) : d[i][1] = key
Lookup(d, key) == d[CHOOSE i \in 1..Len(d) : d[i][1] = key][2]

----------------------------------------------------------------------------
(* Configurations: a sequence of zones in mapping order, each with its     *)
(* commands and queries as sequences of <<property, text>> in mapping      *)
(* order.                                                                  *)

\* the configuration of the module's own example
CfgExample == <<
    [zone |-> "master",
     commands |-> << <<"power", "PWR">>, <<"volume", "MVL">>,
                     <<"source", "SLI">>, <<"mute", "AMT">> >>,
     queries |-> << <<"power", "PWRQSTN">>, <<"volume", "MVLQSTN">>,
                    <<"source", "SLIQSTN">>, <<"mute", "AMTQSTN">> >>],
    [zone |-> "zone2",
     commands |-> << <<"power", "ZPW">>, <<"volume", "ZVL">>,
                     <<"source", "SLZ">>, <<"mute", "ZMT">> >>,
     queries |-> << <<"power", "ZPWQSTN">>, <<"volume", "SVLQSTN">>,
                    <<"source", "SLZQSTN">>, <<"mute", "ZMTQSTN">> >>]
>>

\* a configuration whose zones share the power code, lack some commands, and
\* name a property ("tone") that the worker has no handler for
CfgShared == <<
    [zone |-> "master",
     commands |-> << <<"power", "PWR">>, <<"volume", "MVL">> >>,
     queries |-> << <<"power", "PWRQSTN">> >>],
    [zone |-> "zone2",
     commands |-> << <<"power", "PWR">>, <<"mute", "ZMT">>, <<"tone", "TFR">> >>,
     queries |-> << <<"mute", "ZMTQSTN">>, <<"power", "ZPWQSTN">> >>]
>>

\* a configuration whose zones have one command each and a zone without queries
CfgSparse == <<
    [zone |-> "master",
     commands |-> << <<"source", "SLI">> >>,
     queries |-> << <<"source", "SLIQSTN">> >>],
    [zone |-> "zone2",
     commands |-> << <<"volume", "ZVL">> >>,
     queries |-> <<>>]
>>

Configs == {CfgExample, CfgShared, CfgSparse}

ZoneNames(cfg) == {cfg[i].zone : i \in 1..Len(cfg)}
ZoneConfig(cfg, z) == cfg[CHOOSE i \in 1..Len(cfg) : cfg[i].zone = z]

----------------------------------------------------------------------------
(* OnkyoBackgroundWorker.                                                  *)

\* _pattern = '!1([A-Z]{3})(.{2})?' matched at position i of the text
MatchesAt(out, i) ==
    /\ i + 4 <= Len(out)
    /\ SubSeq(out, i, i + 1) = "!1"
    /\ \A k \in 2..4 : IsUpper(Ch(out, i + k))

\* re.search(_pattern, out): the leftmost match; group 2 is the next two
\* characters when both exist and neither is a newline, otherwise None
search(out) ==
    IF \E i \in 1..Len(out) : MatchesAt(out, i)
    THEN LET i == CHOOSE p \in 1..Len(out) :
                    MatchesAt(out, p) /\ \A j \in 1..(p - 1) : ~MatchesAt(out, j)
         IN  [match |-> TRUE,
              cmd |-> SubSeq(out, i + 2, i + 4),
              val |-> IF i + 6 <= Len(out) /\ Ch(out, i + 5) # LF /\ Ch(out, i + 6) # LF
                      THEN PyStr(SubSeq(out, i + 5, i + 6))
                      ELSE PyNone]
    ELSE [match |-> FALSE]

\* _readline: read(1) results are consumed one by one; an empty result or a
\* line that ends with the sentinel ends the loop
RECURSIVE ReadFrom(_, _, _)
ReadFrom(reads, i, line) ==
    IF i > Len(reads) THEN line
    ELSE LET cread == reads[i]
         IN  IF cread # ""
             THEN IF Ch(line \o cread, Len(line) + 1) = SUB
                  THEN line \o cread
                  ELSE ReadFrom(reads, i + 1, line \o cread)
             ELSE line

_readline(reads) == ReadFrom(reads, 1, "")

\* bytes.decode('utf-8'): raises on a byte that is not valid UTF-8
DecodeRaises(line) == \E i \in 1..Len(line) : Ch(line, i) = BADBYTE

\* (mutant) mute(value) as value == '1'
w_mute_one(value) == PyBool(value = PyStr("1"))

\* power(value), mute(value): value == '01'
w_power(value) == PyBool(value = PyStr("01"))
w_mute(value) == PyBool(value = PyStr("01"))

HexVal(c) ==
    IF IndexOf(c, HexDigits) # 0 THEN IndexOf(c, HexDigits) - 1
    ELSE IF IndexOf(c, LowerHexDigits) # 0 THEN IndexOf(c, LowerHexDigits) - 1
    ELSE -1
IsHex(c) == HexVal(c) >= 0
IsSpace(c) == c \in {" ", "\t", "\r"}

\* (mutant) volume(value) as int(value): base 10
w_volume_base10(value) ==
    IF value = PyNone THEN Raised("TypeError")
    ELSE LET a == IndexOf(Ch(value.s, 1), "0123456789")
             b == IndexOf(Ch(value.s, 2), "0123456789")
         IN  IF a # 0 /\ b # 0 THEN PyInt(10 * (a - 1) + (b - 1))
             ELSE Raised("ValueError")

\* volume(value): int(value, 16) of None or of a two-character string (the only
\* values group 2 can take): int() strips white space and accepts a sign
w_volume(value) ==
    IF value = PyNone THEN Raised("TypeError")
    ELSE LET a == Ch(value.s, 1)
             b == Ch(value.s, 2)
         IN  IF IsHex(a) /\ IsHex(b) THEN PyInt(16 * HexVal(a) + HexVal(b))
             ELSE IF IsSpace(a) /\ IsHex(b) THEN PyInt(HexVal(b))
             ELSE IF IsHex(a) /\ IsSpace(b) THEN PyInt(HexVal(a))
             ELSE IF a = "+" /\ IsHex(b) THEN PyInt(HexVal(b))
             ELSE IF a = "-" /\ IsHex(b) THEN PyInt(0 - HexVal(b))
             ELSE Raised("ValueError")

\* (mutant) source(value) as self._sources.get(value, value)
w_source_get(value) ==
    IF value # PyNone /\ HasKey(SOURCES, value.s)
    THEN PyStr(Lookup(SOURCES, value.s))
    ELSE value

\* source(value): self._sources[value]
w_source(value) ==
    IF value # PyNone /\ HasKey(SOURCES, value.s)
    THEN PyStr(Lookup(SOURCES, value.s))
    ELSE Raised("KeyError")

\* self.messages: the properties that have a handler
messages == {"power", "volume", "source", "mute"}

\* process(message, value): self.messages[message](value)
process(message, value) ==
    IF message \notin messages THEN Raised("KeyError")
    ELSE IF message = "power" THEN w_power(value)
    ELSE IF message = "volume" THEN w_volume(value)
    ELSE IF message = "source" THEN w_source(value)
    ELSE w_mute(value)

\* the inner loop of run: the first entry of one zone's commands whose code is
\* cmd (the break leaves this loop only)
RECURSIVE FirstProp(_, _, _)
FirstProp(commands, cmd, k) ==
    IF k > Len(commands) THEN PyNone
    ELSE IF commands[k][2] = cmd THEN PyStr(commands[k][1])
    ELSE FirstProp(commands, cmd, k + 1)

\* the outer loop of run: every zone is visited in mapping order, and each zone
\* that has the code overwrites zone and prop
RECURSIVE Resolve(_, _, _, _)
Resolve(cfg, cmd, i, found) ==
    IF i > Len(cfg) THEN found
    ELSE LET p == FirstProp(cfg[i].commands, cmd, 1)
         IN  Resolve(cfg, cmd, i + 1,
                     IF p # PyNone THEN [zone |-> PyStr(cfg[i].zone), prop |-> p]
                     ELSE found)

resolve(cfg, cmd) == Resolve(cfg, cmd, 1, [zone |-> PyNone, prop |-> PyNone])

\* (mutant) state_change without the test of the zone
state_change_any_zone(obj, zone, prop, value) == (prop :> <<value>>) @@ obj

\* (mutant) state_change that keeps a field that is already set
state_change_keep_first(obj, zone, prop, value) ==
    IF zone = obj.zone
    THEN obj @@ (prop :> <<value>>)
    ELSE obj

\* OnkyoSerial.state_change of one instance: the handler of the event
state_change(obj, zone, prop, value) ==
    IF zone = obj.zone
    THEN (prop :> <<value>>) @@ obj
    ELSE obj

\* Event.__call__: every subscribed handler is called with the event, in
\* subscription order
RECURSIVE Fire(_, _, _, _)
Fire(hs, k, ev, objs) ==
    IF k > Len(hs) THEN objs
    ELSE Fire(hs, k + 1, ev,
              [objs EXCEPT ![hs[k]] = state_change(objs[hs[k]], ev[1], ev[2], ev[3])])

\* one iteration of the loop of run on a line: what is published, and the
\* exception that ends the thread, if any
Decode(cfg, line) ==
    IF DecodeRaises(line) THEN [events |-> <<>>, exc |-> "UnicodeDecodeError"]
    ELSE LET m == search(line)
         IN  IF ~m.match THEN [events |-> <<>>, exc |-> ""]
             ELSE LET r == resolve(cfg, m.cmd)
                  IN  IF ~(Truthy(r.zone) /\ Truthy(r.prop))
                      THEN [events |-> <<>>, exc |-> ""]
                      ELSE LET v == process(r.prop.s, m.val)
                           IN  IF IsRaised(v) THEN [events |-> <<>>, exc |-> v.exc]
                               ELSE [events |-> << <<r.zone.s, r.prop.s, v>> >>,
                                     exc |-> ""]

----------------------------------------------------------------------------
(* What the device can send: each input is the sequence of results of the  *)
(* read(1) calls of one _readline call, a one-byte string each or the      *)
(* empty string (time-out, nothing to read).                               *)

Bytes(s) == [i \in 1..Len(s) |-> Ch(s, i)]
Timeout == <<"">>

\* every code of the configuration, and one that is configured nowhere
Codes(cfg) ==
    UNION {{cfg[i].commands[k][2] : k \in 1..Len(cfg[i].commands)} : i \in 1..Len(cfg)}
    \cup {"XYZ"}

\* two-character values, valid and invalid for each property, and no value
Vals == {"00", "01", "02", "2A", "37", "FF", "ff", "0x", "ZZ", "-1", " 7", "7\r",
         "0" \o SUB, ""}

\* the frames the decoder is checked on
Frames(cfg) ==
    {"!1" \o c \o v \o SUB : c \in Codes(cfg), v \in Vals}
    \cup {"x!1PWR01" \o SUB, "!1PWRX01" \o SUB, "!1PWR\n1" \o SUB, "!1MVL\n1" \o SUB,
          "!1pwr01" \o SUB, "!1PWr01" \o SUB, "!2PWR01" \o SUB, "PWR01" \o SUB,
          "!1PW" \o SUB, "!1AMT01!1PWR01" \o SUB, "!1PWR01xx" \o SUB,
          BADBYTE \o SUB, "!1PWR01" \o BADBYTE \o SUB, SUB}

Inputs(cfg) ==
    {Bytes(f) : f \in Frames(cfg)}
    \cup {Timeout, Bytes("!1PWR01") \o Timeout, Bytes("!1PW") \o Timeout}

\* format(level, '02X'): upper-case hexadecimal, zero-padded to two characters,
\* the sign of a negative level counted in the width
RECURSIVE Hex(_)
Hex(n) ==
    IF n < 16 THEN Ch(HexDigits, n + 1)
    ELSE Hex(n \div 16) \o Ch(HexDigits, (n % 16) + 1)

\* (mutant) format(level, 'X'): no padding
format02X_unpadded(level) ==
    IF level < 0 THEN "-" \o Hex(0 - level) ELSE Hex(level)

format02X(level) ==
    IF level < 0 THEN "-" \o Hex(0 - level)
    ELSE IF level < 16 THEN "0" \o Hex(level)
    ELSE Hex(level)

\* the levels volume() is called with: 0..255 and two on either side
AllLevels == (0 - 2)..MaxLevel

\* what the device sends back for the commands of power_on, power_off, mute_on,
\* mute_off and volume(level): the written text, the sentinel in place of the
\* carriage return
EchoSuffixes(prop) ==
    IF prop = "volume" THEN {format02X(l) : l \in AllLevels}
    ELSE IF prop \in {"power", "mute"} THEN {"00", "01"}
    ELSE {}

EchoInputs(cfg) ==
    UNION {UNION {{Bytes("!1" \o cfg[i].commands[k][2] \o v \o SUB) :
                        v \in EchoSuffixes(cfg[i].commands[k][1])}
                  : k \in 1..Len(cfg[i].commands)}
           : i \in 1..Len(cfg)}

\* the inputs of the whole-program specification
Received ==
    {Bytes(f \o SUB) : f \in {"!1PWR01", "!1PWR00", "!1MVL37", "!1ZMT01", "!1MVLZZ",
                              "x"}}
    \cup {Timeout}

----------------------------------------------------------------------------
(* State.                                                                  *)

\* the output of a step; prior is, for an iteration of the worker's loop that
\* directly follows another, what that one published
NoOutput == [written |-> <<>>, published |-> <<>>, exc |-> "", prior |-> <<>>]

Step(op, who, arg, out) ==
    [op |-> op, who |-> who, arg |-> arg,
     written |-> out.written, published |-> out.published, exc |-> out.exc,
     prior |-> out.prior]

\* the process before the first OnkyoSerial is constructed, with one caller thread
Init ==
    /\ config \in Configs
    /\ ports = <<>>
    /\ serial = 0
    /\ workers = <<>>
    /\ worker_thread = 0
    /\ handlers = <<>>
    /\ ctl = <<>>
    /\ pc = [t \in {1} |-> "idle"]
    /\ self = [t \in {1} |-> 0]
    /\ last = Step("start", 0, "", NoOutput)

Threads == DOMAIN pc

\* instances whose constructor has returned
Constructed == {c \in 1..Len(ctl) : \A t \in Threads : self[t] # c}

----------------------------------------------------------------------------
(* OnkyoSerial.__init__, statement by statement.                           *)

\* (mutant) __init__ without the test of the class's port: always opens
init_begin_always_open(t, z) ==
    /\ pc[t] = "idle"
    /\ Len(ctl) < MaxControllers
    /\ z \in ZoneNames(config)
    /\ ctl' = Append(ctl, [zone |-> z])
    /\ self' = [self EXCEPT ![t] = Len(ctl) + 1]
    /\ pc' = [pc EXCEPT ![t] = "open"]
    /\ last' = [op |-> "__init__", who |-> Len(ctl) + 1, arg |-> z,
                written |-> <<>>, published |-> <<>>, exc |-> "", prior |-> <<>>]
    /\ UNCHANGED <<config, ports, serial, workers, worker_thread, handlers>>

\* lines 144-150: the instance's own fields, then the test of the class's port
init_begin(t, z) ==
    /\ pc[t] = "idle"
    /\ Len(ctl) < MaxControllers
    /\ z \in ZoneNames(config)
    /\ ctl' = Append(ctl, [zone |-> z])
    /\ self' = [self EXCEPT ![t] = Len(ctl) + 1]
    /\ pc' = [pc EXCEPT ![t] = IF serial = 0 THEN "open" ELSE "check_worker"]
    /\ last' = Step("__init__", Len(ctl) + 1, z, NoOutput)
    /\ UNCHANGED <<config, ports, serial, workers, worker_thread, handlers>>

\* line 151: Serial(port, ...) opens the device
init_open(t) ==
    /\ pc[t] = "open"
    /\ ports' = Append(ports, TRUE)
    /\ serial' = Len(ports) + 1
    /\ pc' = [pc EXCEPT ![t] = "check_worker"]
    /\ last' = Step("open", self[t], "", NoOutput)
    /\ UNCHANGED <<config, workers, worker_thread, handlers, ctl, self>>

\* line 153: the test of the class's worker
init_check_worker(t) ==
    /\ pc[t] = "check_worker"
    /\ pc' = [pc EXCEPT ![t] = IF worker_thread = 0 THEN "start" ELSE "subscribe"]
    /\ last' = Step("check_worker", self[t], "", NoOutput)
    /\ UNCHANGED <<config, ports, serial, workers, worker_thread, handlers, ctl, self>>

\* lines 154-155: a worker on the class's port is created and started
init_start(t) ==
    /\ pc[t] = "start"
    /\ workers' = Append(workers, [port |-> serial, state |-> "listening", exc |-> ""])
    /\ worker_thread' = Len(workers) + 1
    /\ pc' = [pc EXCEPT ![t] = "subscribe"]
    /\ last' = Step("start_worker", self[t], "", NoOutput)
    /\ UNCHANGED <<config, ports, serial, handlers, ctl, self>>

\* line 157: state_changed += self.state_change
init_subscribe(t) ==
    /\ pc[t] = "subscribe"
    /\ handlers' = Append(handlers, self[t])
    /\ pc' = [pc EXCEPT ![t] = "init"]
    /\ last' = Step("subscribe", self[t], "", NoOutput)
    /\ UNCHANGED <<config, ports, serial, workers, worker_thread, ctl, self>>

\* lines 159-162: the initial state, after which the constructor returns
InitialState(obj) ==
    [power |-> <<PyBool(FALSE)>>, volume |-> <<PyInt(0)>>,
     source |-> <<PyNone>>, mute |-> <<PyBool(FALSE)>>] @@ obj

init_state(t) ==
    /\ pc[t] = "init"
    /\ ctl' = [ctl EXCEPT ![self[t]] = InitialState(ctl[self[t]])]
    /\ pc' = [pc EXCEPT ![t] = "idle"]
    /\ self' = [self EXCEPT ![t] = 0]
    /\ last' = Step("constructed", self[t], "", NoOutput)
    /\ UNCHANGED <<config, ports, serial, workers, worker_thread, handlers>>

----------------------------------------------------------------------------
(* OnkyoBackgroundWorker.run: one iteration of its loop.                   *)

Publish(d) ==
    IF d.events = <<>> THEN ctl ELSE Fire(handlers, 1, d.events[1], ctl)

\* the loop body applied to every input of every configuration, computed once
Iterations ==
    UNION {{[reads |-> r, cfg |-> cfg, line |-> _readline(r),
             d |-> Decode(cfg, _readline(r))] :
                r \in Inputs(cfg) \cup Received \cup EchoInputs(cfg)}
           : cfg \in Configs}

Iteration(cfg, reads) ==
    CHOOSE e \in Iterations : e.reads = reads /\ e.cfg = cfg

\* an uncaught exception ends the thread
Ended(w, exc) ==
    [workers EXCEPT ![w] = IF exc = "" THEN @
                           ELSE [@ EXCEPT !.state = "dead", !.exc = exc]]

run(w, reads) ==
    /\ workers[w].state = "listening"
    /\ IF ~ports[workers[w].port]
       THEN \* read(1) on a closed port raises
            /\ workers' = Ended(w, "SerialException")
            /\ last' = Step("run", w, "",
                            [NoOutput EXCEPT !.exc = "SerialException"])
            /\ ctl' = ctl
       ELSE LET line == Iteration(config, reads).line
                d == Iteration(config, reads).d
            IN  /\ ctl' = Publish(d)
                /\ workers' = Ended(w, d.exc)
                /\ last' = Step("run", w, line,
                                [NoOutput EXCEPT !.published = d.events,
                                                 !.exc = d.exc,
                                                 !.prior = IF last.op = "run"
                                                           THEN last.published
                                                           ELSE <<>>])
    /\ UNCHANGED <<config, ports, serial, worker_thread, handlers, pc, self>>

----------------------------------------------------------------------------
(* OnkyoSerial: the command operations.                                    *)

\* (mutant) command without the test of isOpen()
command_unchecked(cmd) == << [port |-> serial, data |-> "!1" \o cmd \o CR] >>

\* command(command): one write of '!1' + command + '\r' when the port is open
command(cmd) ==
    IF ports[serial]
    THEN << [port |-> serial, data |-> "!1" \o cmd \o CR] >>
    ELSE <<>>

\* self._commands and self._queries of an instance
Commands(c) == ZoneConfig(config, ctl[c].zone).commands
\* (mutant) the queries of the first zone of the configuration, whatever the zone
Queries_first_zone(c) == config[1].queries

Queries(c) == ZoneConfig(config, ctl[c].zone).queries

\* the writes of update(): command(query) for every query, in order
RECURSIVE UpdateFrom(_, _)
UpdateFrom(queries, k) ==
    IF k > Len(queries) THEN <<>>
    ELSE command(queries[k][2]) \o UpdateFrom(queries, k + 1)

\* (mutant) the command code taken with a default: self._commands.get(prop, prop)
Switch_default(c, prop, suffix) ==
    IF HasKey(Commands(c), prop)
    THEN command(Lookup(Commands(c), prop) \o suffix)
    ELSE command(prop \o suffix)

\* the writes of power_on, power_off, mute_on, mute_off
Switch(c, prop, suffix) ==
    IF HasKey(Commands(c), prop)
    THEN command(Lookup(Commands(c), prop) \o suffix)
    ELSE <<>>

\* the writes of volume(level)
SetVolume(c, level) ==
    IF HasKey(Commands(c), "volume")
    THEN command(Lookup(Commands(c), "volume") \o format02X(level))
    ELSE <<>>

\* self._reverse_sources.get(name, None): the alias list as a whole is the key
\* (of two equal alias lists the later code would be kept)
ReverseGet(name) ==
    IF \E i \in 1..Len(SOURCES) : SOURCES[i][2] = name
    THEN LET i == CHOOSE p \in 1..Len(SOURCES) :
                    /\ SOURCES[p][2] = name
                    /\ \A q \in (p + 1)..Len(SOURCES) : SOURCES[q][2] # name
         IN  PyStr(SOURCES[i][1])
    ELSE PyNone

InList(name, seq) == \E k \in 1..Len(seq) : seq[k] = name

\* (mutant) the loop of source() comparing the first alias of each list only
RECURSIVE ScanAliases_first(_, _, _)
ScanAliases_first(name, i, sel) ==
    IF i > Len(SOURCES) THEN sel
    ELSE ScanAliases_first(name, i + 1,
                           IF split(SOURCES[i][2])[1] = name
                           THEN ReverseGet(SOURCES[i][2])
                           ELSE sel)

\* the loop of source(): every alias list is split and searched, no break
RECURSIVE ScanAliases(_, _, _)
ScanAliases(name, i, sel) ==
    IF i > Len(SOURCES) THEN sel
    ELSE ScanAliases(name, i + 1,
                     IF InList(name, split(SOURCES[i][2]))
                     THEN ReverseGet(SOURCES[i][2])
                     ELSE sel)

Select(input) ==
    LET sel == ReverseGet(upper(input))
    IN  IF ~Truthy(sel) THEN ScanAliases(upper(input), 1, sel) ELSE sel

\* every alias of SOURCES
Aliases ==
    UNION {{split(SOURCES[i][2])[k] : k \in 1..Len(split(SOURCES[i][2]))}
           : i \in 1..Len(SOURCES)}

\* the names source() is checked on: every alias in upper and in lower case, some
\* in mixed case, whole alias lists, parts of aliases, and names of no source
AllNames ==
    Aliases \cup {lower(a) : a \in Aliases}
    \cup {"Game", "gAME", "Aux", "Video3", "Usb (Rear)", "Net"}
    \cup {SOURCES[i][2] : i \in 1..Len(SOURCES)}
    \cup {"dvd,bd/dvd", "GAME/TV,GAME", "GAME,GAME1", "TV", "USB", "VIDEO", "02",
          "RADIO", ",", ""}

\* Select on every name, computed once
Selections == {[input |-> n, sel |-> Select(n)] : n \in AllNames}
Selected(input) == (CHOOSE e \in Selections : e.input = input).sel

\* the writes of source(input)
SetSource(c, input) ==
    IF HasKey(Commands(c), "source")
    THEN LET sel == Selected(input)
         IN  IF Truthy(sel)
             THEN command(Lookup(Commands(c), "source") \o sel.s)
             ELSE <<>>
    ELSE <<>>

\* (mutant) a call that also stores the commanded power in the instance
Call_caching(c, op, arg, writes) ==
    /\ c \in Constructed
    /\ \E t \in Threads : pc[t] = "idle"
    /\ last' = Step(op, c, arg, [NoOutput EXCEPT !.written = writes])
    /\ ctl' = IF op = "power_on"
              THEN [ctl EXCEPT ![c] = ("power" :> <<PyBool(TRUE)>>) @@ @]
              ELSE ctl
    /\ UNCHANGED <<config, ports, serial, workers, worker_thread, handlers, pc, self>>

\* a call of a method of a constructed instance from an idle caller thread
Call(c, op, arg, writes) ==
    /\ c \in Constructed
    /\ \E t \in Threads : pc[t] = "idle"
    /\ last' = Step(op, c, arg, [NoOutput EXCEPT !.written = writes])
    /\ UNCHANGED <<config, ports, serial, workers, worker_thread, handlers, ctl, pc, self>>

update(c) == Call(c, "update", "", UpdateFrom(Queries(c), 1))
power_on(c) == Call(c, "power_on", "", Switch(c, "power", "01"))
power_off(c) == Call(c, "power_off", "", Switch(c, "power", "00"))
mute_on(c) == Call(c, "mute_on", "", Switch(c, "mute", "01"))
mute_off(c) == Call(c, "mute_off", "", Switch(c, "mute", "00"))
volume(c, level) == Call(c, "volume", level, SetVolume(c, level))
source(c, input) == Call(c, "source", input, SetSource(c, input))

----------------------------------------------------------------------------
(* The Serial object: the application closes or reopens the shared port.   *)

port_close ==
    /\ serial # 0
    /\ ports[serial]
    /\ ports' = [ports EXCEPT ![serial] = FALSE]
    /\ last' = Step("close", serial, "", NoOutput)
    /\ UNCHANGED <<config, serial, workers, worker_thread, handlers, ctl, pc, self>>

port_open ==
    /\ serial # 0
    /\ ~ports[serial]
    /\ ports' = [ports EXCEPT ![serial] = TRUE]
    /\ last' = Step("reopen", serial, "", NoOutput)
    /\ UNCHANGED <<config, serial, workers, worker_thread, handlers, ctl, pc, self>>

----------------------------------------------------------------------------
(* The program: one caller thread constructs instances and calls their     *)
(* methods while the worker thread runs.                                   *)

Levels == {55}
Names == {"GAME"}

Next ==
    \/ \E t \in Threads, z \in ZoneNames(config) : init_begin(t, z)
    \/ \E t \in Threads : init_open(t)
    \/ \E t \in Threads : init_check_worker(t)
    \/ \E t \in Threads : init_start(t)
    \/ \E t \in Threads : init_subscribe(t)
    \/ \E t \in Threads : init_state(t)
    \/ \E w \in 1..Len(workers), reads \in Received : run(w, reads)
    \/ \E c \in 1..Len(ctl) : update(c)
    \/ \E c \in 1..Len(ctl) : power_on(c)
    \/ \E c \in 1..Len(ctl) : power_off(c)
    \/ \E c \in 1..Len(ctl) : mute_on(c)
    \/ \E c \in 1..Len(ctl) : mute_off(c)
    \/ \E c \in 1..Len(ctl), level \in Levels : volume(c, level)
    \/ \E c \in 1..Len(ctl), input \in Names : source(c, input)
    \/ port_close
    \/ port_open

Spec == Init /\ [][Next]_vars

----------------------------------------------------------------------------
(* The state after the constructors of a sequence of zones have returned,  *)
(* and after the worker has then processed a sequence of lines.            *)

Built(zs) == [i \in 1..Len(zs) |-> InitialState([zone |-> zs[i]])]

RECURSIVE Replay(_, _, _, _, _)
Replay(cfg, hs, objs, lines, k) ==
    IF k > Len(lines) THEN objs
    ELSE LET d == Decode(cfg, lines[k])
         IN  Replay(cfg, hs,
                    IF d.events = <<>> THEN objs ELSE Fire(hs, 1, d.events[1], objs),
                    lines, k + 1)

InitBuilt(zs, open, lines) ==
    /\ config \in Configs
    /\ ports = <<open>>
    /\ serial = 1
    /\ workers = <<[port |-> 1, state |-> "listening", exc |-> ""]>>
    /\ worker_thread = 1
    /\ handlers = [i \in 1..Len(zs) |-> i]
    /\ ctl = Replay(config, handlers, Built(zs), lines, 1)
    /\ pc = [t \in {1} |-> "idle"]
    /\ self = [t \in {1} |-> 0]
    /\ last = Step("start", 0, "", NoOutput)

----------------------------------------------------------------------------
(* The decoder on its own: one iteration of the worker's loop on every     *)
(* input of Inputs, from the state after three constructions, fresh or     *)
(* after a few notifications.                                              *)

Warmups ==
    {<<>>,
     <<"!1PWR01" \o SUB, "!1MVL37" \o SUB, "!1ZMT01" \o SUB, "!1SLI02" \o SUB>>}

InitDecode ==
    \E lines \in Warmups : InitBuilt(<<"master", "zone2", "master">>, TRUE, lines)

NextDecode ==
    /\ last.op = "start"
    /\ \E reads \in Inputs(config) : run(1, reads)

SpecDecode == InitDecode /\ [][NextDecode]_vars

----------------------------------------------------------------------------
(* The command operations on their own: one call of every operation with   *)
(* every level of AllLevels and every name of AllNames, on either zone,    *)
(* with the port open or closed.                                           *)

InitCmd ==
    \E open \in BOOLEAN : InitBuilt(<<"master", "zone2">>, open, <<>>)

NextCmd ==
    /\ last.op = "start"
    /\ \E c \in 1..Len(ctl) :
        \/ update(c)
        \/ power_on(c)
        \/ power_off(c)
        \/ mute_on(c)
        \/ mute_off(c)
        \/ \E level \in AllLevels : volume(c, level)
        \/ \E input \in AllNames : source(c, input)

SpecCmd == InitCmd /\ [][NextCmd]_vars

----------------------------------------------------------------------------
(* Vocabulary of the properties below, stated on the frame and on the      *)
(* configuration, not on the decoder.                                      *)

\* the (zone, property) pairs of a configuration that have the code
PairsOf(cfg, code) ==
    UNION {{<<cfg[i].zone, cfg[i].commands[k][1]>> :
                k \in {j \in 1..Len(cfg[i].commands) : cfg[i].commands[j][2] = code}}
           : i \in 1..Len(cfg)}

\* the text of a line: the line without the sentinel that ends it
FrameText(line) ==
    IF Len(line) > 0 /\ Ch(line, Len(line)) = SUB
    THEN SubSeq(line, 1, Len(line) - 1)
    ELSE line

\* the text is !1, then exactly three upper-case letters, then optionally exactly
\* two more characters
HasFrameForm(line) ==
    /\ Len(FrameText(line)) \in {5, 7}
    /\ SubSeq(line, 1, 2) = "!1"
    /\ \A k \in 3..5 : \E u \in 1..26 : Ch(UpperLetters, u) = Ch(line, k)

Terminated(line) == Len(line) > 0 /\ Ch(line, Len(line)) = SUB

FrameCode(line) == SubSeq(line, 3, 5)
FrameVal(line) == SubSeq(FrameText(line), 6, Len(FrameText(line)))

Digit16(c) == c \in {Ch(HexDigits, k) : k \in 1..16} \cup {Ch(LowerHexDigits, k) : k \in 1..16}
Value16(c) ==
    IF \E k \in 1..16 : Ch(HexDigits, k) = c
    THEN (CHOOSE k \in 1..16 : Ch(HexDigits, k) = c) - 1
    ELSE (CHOOSE k \in 1..16 : Ch(LowerHexDigits, k) = c) - 1

\* a two-character value that is valid for the property
ValidFor(prop, val) ==
    /\ Len(val) = 2
    /\ CASE prop = "power" -> val \in {"00", "01"}
         [] prop = "mute" -> val \in {"00", "01"}
         [] prop = "volume" -> Digit16(Ch(val, 1)) /\ Digit16(Ch(val, 2))
         [] prop = "source" -> \E i \in 1..Len(SOURCES) : SOURCES[i][1] = val
         [] OTHER -> FALSE

\* f(val): the value the property takes
Expected(prop, val) ==
    CASE prop = "power" -> PyBool(val = "01")
      [] prop = "mute" -> PyBool(val = "01")
      [] prop = "volume" -> PyInt(16 * Value16(Ch(val, 1)) + Value16(Ch(val, 2)))
      [] prop = "source" ->
            PyStr(SOURCES[CHOOSE i \in 1..Len(SOURCES) : SOURCES[i][1] = val][2])

Published == last.published

\* C1 as stated: a frame !1<code><val> with <code> configured for property P of
\* zone Z and <val> valid for P is published as the one event (Z, P, f(val)),
\* and every controller of zone Z then caches f(val) as P, in every
\* configuration.
C1_EveryConfiguration ==
    (last.op = "run" /\ HasFrameForm(last.arg) /\ Terminated(last.arg)) =>
        \A zp \in PairsOf(config, FrameCode(last.arg)) :
            ValidFor(zp[2], FrameVal(last.arg)) =>
                /\ Published = << <<zp[1], zp[2], Expected(zp[2], FrameVal(last.arg))>> >>
                /\ \A c \in 1..Len(ctl) :
                        ctl[c].zone = zp[1] =>
                            ctl[c][zp[2]] = <<Expected(zp[2], FrameVal(last.arg))>>

\* C1 amended: the same, for a code that is configured for exactly one
\* (zone, property) pair of the configuration.
C1_UniqueCode ==
    (last.op = "run" /\ HasFrameForm(last.arg) /\ Terminated(last.arg)) =>
        \A zp \in PairsOf(config, FrameCode(last.arg)) :
            (/\ PairsOf(config, FrameCode(last.arg)) = {zp}
             /\ ValidFor(zp[2], FrameVal(last.arg))) =>
                /\ Published = << <<zp[1], zp[2], Expected(zp[2], FrameVal(last.arg))>> >>
                /\ \A c \in 1..Len(ctl) :
                        ctl[c].zone = zp[1] =>
                            ctl[c][zp[2]] = <<Expected(zp[2], FrameVal(last.arg))>>

\* C1 witness: the frame !1MVLFF is published as (master, volume, 255) and both
\* controllers of master cache 255, the controller of zone2 does not.
C1_Witness ==
    /\ last.op = "run"
    /\ last.arg = "!1MVLFF" \o SUB
    /\ Published = << <<"master", "volume", PyInt(255)>> >>
    /\ ctl[1].volume = <<PyInt(255)>>
    /\ ctl[3].volume = <<PyInt(255)>>
    /\ ctl[2].volume = <<PyInt(0)>>

\* C2 as stated: no bytes received from the transport end the listener: a
\* worker thread that has ended was ended by reading a closed port, never by a
\* line it read.
C2_ListenerSurvivesInput ==
    \A w \in 1..Len(workers) :
        workers[w].state = "dead" => workers[w].exc = "SerialException"

\* C3 as stated: a frame whose text does not have the form !1, three upper-case
\* letters, optional two-character value publishes no event, raises no error
\* and leaves every controller's cached state unchanged.
C3_OtherFramesIgnored ==
    [][(last'.op = "run" /\ ~HasFrameForm(last'.arg)) =>
            (last'.published = <<>> /\ last'.exc = "" /\ ctl' = ctl)]_vars

\* a base-16 numeral: white space, an optional sign, at least one hexadecimal
\* digit, white space (a two-character value has no room for a 0x prefix or an
\* underscore between digits)
White(c) == c \in {" ", "\t", "\r"}
IsNumeral16(v) ==
    \E a \in 1..Len(v), b \in 1..Len(v) :
        /\ a <= b
        /\ \A k \in a..b : Digit16(Ch(v, k))
        /\ \A k \in (b + 1)..Len(v) : White(Ch(v, k))
        /\ \/ \A k \in 1..(a - 1) : White(Ch(v, k))
           \/ /\ a > 1
              /\ Ch(v, a - 1) \in {"+", "-"}
              /\ \A k \in 1..(a - 2) : White(Ch(v, k))

\* the value of a frame cannot be converted for the property
Unconvertible(prop, val) ==
    \/ prop \notin {"power", "volume", "source", "mute"}
    \/ prop = "source" /\ ~\E i \in 1..Len(SOURCES) : SOURCES[i][1] = val
    \/ prop = "volume" /\ ~IsNumeral16(val)

\* C4: a frame that has the form and whose code is configured, but whose value
\* cannot be converted for the property, publishes no event and changes no
\* field of any controller.
C4_UnconvertibleDropped ==
    [][(/\ last'.op = "run"
        /\ HasFrameForm(last'.arg)
        /\ PairsOf(config, FrameCode(last'.arg)) # {}
        /\ \A zp \in PairsOf(config, FrameCode(last'.arg)) :
                Unconvertible(zp[2], FrameVal(last'.arg)))
        => (last'.published = <<>> /\ ctl' = ctl)]_vars

\* C4 witness: !1SLIZZ names the source code of master and no source; the worker
\* has published nothing and master still caches the source it had.
C4_Witness ==
    /\ last.op = "run"
    /\ last.arg = "!1SLIZZ" \o SUB
    /\ last.published = <<>>
    /\ last.exc = "KeyError"
    /\ ctl[1].source = <<PyStr("VIDEO3,GAME/TV,GAME,GAME1")>>

\* C5: a published event (Z, P, v) sets field P of every constructed controller
\* of zone Z to v and changes nothing else: not the other fields of those
\* controllers, and no field of a controller of another zone.
C5_PublishUpdatesZoneOnly ==
    [][(last'.op = "run" /\ last'.published # <<>>) =>
        LET ev == last'.published[1]
        IN  \A c \in Constructed :
                IF ctl[c].zone = ev[1]
                THEN /\ ctl'[c][ev[2]] = <<ev[3]>>
                     /\ DOMAIN ctl'[c] = DOMAIN ctl[c] \cup {ev[2]}
                     /\ \A f \in DOMAIN ctl[c] \ {ev[2]} : ctl'[c][f] = ctl[c][f]
                ELSE ctl'[c] = ctl[c]]_vars

\* C5 witness: (zone2, mute, true) has just been published with a controller of
\* each zone constructed; zone2's caches it and master's mute is still false.
C5_Witness ==
    /\ last.op = "run"
    /\ last.published = << <<"zone2", "mute", PyBool(TRUE)>> >>
    /\ \E c \in Constructed, d \in Constructed :
        /\ ctl[c].zone = "zone2"
        /\ ctl[c].mute = <<PyBool(TRUE)>>
        /\ ctl[d].zone = "master"
        /\ ctl[d].mute = <<PyBool(FALSE)>>

\* C6: once a constructor has returned, the port has been opened exactly once
\* and exactly one worker has been started, on that port; every constructed
\* controller is subscribed to it and every write goes to that port.
C6_OnePortOneWorker ==
    Constructed # {} =>
        /\ Len(ports) = 1
        /\ serial = 1
        /\ Len(workers) = 1
        /\ worker_thread = 1
        /\ workers[1].port = 1
        /\ \A c \in Constructed : InList(c, handlers)
        /\ \A k \in 1..Len(last.written) : last.written[k].port = 1

\* C6 witness: two constructors have returned, and the second controller has
\* written a command.
C6_Witness ==
    /\ Cardinality(Constructed) >= 2
    /\ last.who = 2
    /\ last.written # <<>>

CommandOps ==
    {"update", "power_on", "power_off", "mute_on", "mute_off", "volume", "source"}

\* C7: with the port closed, every command operation writes nothing, raises
\* nothing and leaves the cached state of every controller unchanged.
C7_ClosedPortNoWrite ==
    [][(last'.op \in CommandOps /\ ~ports[serial]) =>
            (last'.written = <<>> /\ last'.exc = "" /\ ctl' = ctl)]_vars

\* C7 witness: update() has been called with the port closed on a zone that has
\* queries, and nothing was written.
C7_Witness ==
    /\ last.op = "update"
    /\ ~ports[serial]
    /\ Queries(last.who) # <<>>
    /\ last.written = <<>>

\* the code whose alias list contains the alias
CodeOfAlias(a) ==
    SOURCES[CHOOSE i \in 1..Len(SOURCES) : InList(a, split(SOURCES[i][2]))][1]

\* the name, ignoring letter case, is an alias of some list
IsAliasName(name) == \E a \in Aliases : upper(a) = upper(name)

SourceWrite(c, name) ==
    << [port |-> serial,
        data |-> "!1" \o Lookup(Commands(c), "source")
                      \o CodeOfAlias(CHOOSE a \in Aliases : upper(a) = upper(name))
                      \o CR] >>

\* no alias belongs to two alias lists
UniqueAliases ==
    \A i \in 1..Len(SOURCES), j \in 1..Len(SOURCES) :
        (\E a \in Aliases : InList(a, split(SOURCES[i][2]))
                            /\ InList(a, split(SOURCES[j][2]))) => i = j

\* C8 as stated: source(name) with a name that is, ignoring case, any alias of
\* any list, on a zone with a source command, writes exactly the one command
\* !1<source-code><c>\r, c the one code whose list has the alias (so names that
\* differ in case only give the same write).
C8_AliasWritesCode ==
    (/\ last.op = "source"
     /\ HasKey(Commands(last.who), "source")
     /\ IsAliasName(last.arg))
        => (UniqueAliases /\ last.written = SourceWrite(last.who, last.arg))

\* C8 amended: the same, with the transport open.
C8_AliasWritesCodeWhenOpen ==
    (/\ last.op = "source"
     /\ HasKey(Commands(last.who), "source")
     /\ IsAliasName(last.arg)
     /\ ports[serial])
        => (UniqueAliases /\ last.written = SourceWrite(last.who, last.arg))

\* C8 witness: source("game"), the third alias of "02" in lower case, on master
\* with source command SLI has written !1SLI02\r.
C8_Witness ==
    /\ last.op = "source"
    /\ last.arg = "game"
    /\ last.written = << [port |-> 1, data |-> "!1SLI02" \o CR] >>

\* C9: volume(level) with level in 0..255, on a zone with a volume command and
\* the port open, writes exactly !1<volume-code><HH>\r, HH the two upper-case
\* hexadecimal digits of level.
C9_VolumeTwoHexDigits ==
    (/\ last.op = "volume"
     /\ last.arg \in 0..255
     /\ HasKey(Commands(last.who), "volume")
     /\ ports[serial])
        => last.written =
            << [port |-> serial,
                data |-> "!1" \o Lookup(Commands(last.who), "volume")
                              \o Ch("0123456789ABCDEF", (last.arg \div 16) + 1)
                              \o Ch("0123456789ABCDEF", (last.arg % 16) + 1)
                              \o CR] >>

\* C9 witness: volume(55) on master has written !1MVL37\r.
C9_Witness ==
    /\ last.op = "volume"
    /\ last.arg = 55
    /\ last.written = << [port |-> 1, data |-> "!1MVL37" \o CR] >>

\* the operation is one whose property has no command code in the zone
Unconfigured(c, op) ==
    \/ op \in {"power_on", "power_off"} /\ ~HasKey(Commands(c), "power")
    \/ op \in {"mute_on", "mute_off"} /\ ~HasKey(Commands(c), "mute")
    \/ op = "volume" /\ ~HasKey(Commands(c), "volume")
    \/ op = "source" /\ ~HasKey(Commands(c), "source")

\* C10 as stated: an operation whose property has no command code in the zone,
\* and source(name) with a name that is no alias, write nothing and raise
\* nothing.
C10_NothingWritten ==
    (\/ Unconfigured(last.who, last.op)
     \/ last.op = "source" /\ ~IsAliasName(last.arg))
        => (last.written = <<>> /\ last.exc = "")

\* the name, ignoring letter case, is a whole alias list of SOURCES
IsAliasList(name) == \E i \in 1..Len(SOURCES) : upper(SOURCES[i][2]) = upper(name)

\* C10 amended: the same, for a name that is neither an alias nor a whole
\* comma-separated alias list.
C10_NothingWrittenUnlessListed ==
    (\/ Unconfigured(last.who, last.op)
     \/ last.op = "source" /\ ~IsAliasName(last.arg) /\ ~IsAliasList(last.arg))
        => (last.written = <<>> /\ last.exc = "")

\* C10 witness: power_on() on a zone without a power command, the port open,
\* has written nothing.
C10_Witness ==
    /\ last.op = "power_on"
    /\ ~HasKey(Commands(last.who), "power")
    /\ ports[serial]
    /\ last.written = <<>>

\* the zone entry of the configuration that a controller was constructed for
OwnZone(c) == config[CHOOSE i \in 1..Len(config) : config[i].zone = ctl[c].zone]

\* C11: with the port open, update() writes !1<query>\r for each query of the
\* controller's own zone, each once and in configuration order, and nothing
\* else (so no query of another zone).
C11_UpdateWritesOwnQueries ==
    (last.op = "update" /\ ports[serial]) =>
        /\ Len(last.written) = Len(OwnZone(last.who).queries)
        /\ \A k \in 1..Len(last.written) :
                last.written[k] =
                    [port |-> serial,
                     data |-> "!1" \o OwnZone(last.who).queries[k][2] \o CR]

\* C11 witness: update() on the controller of zone2, whose queries differ from
\* those of the first zone, has written the two queries of zone2 in order.
C11_Witness ==
    /\ last.op = "update"
    /\ ctl[last.who].zone = "zone2"
    /\ last.written = << [port |-> 1, data |-> "!1ZMTQSTN" \o CR],
                         [port |-> 1, data |-> "!1ZPWQSTN" \o CR] >>

\* the value is the text of a SourceTable entry: one alias, or the alias list of
\* one code as the table holds it
IsSourceText(v) ==
    /\ v.t = "str"
    /\ \/ v.s \in Aliases
       \/ \E i \in 1..Len(SOURCES) : SOURCES[i][2] = v.s

\* C12 as stated: every constructed controller caches a boolean power, a
\* boolean mute, an integer volume in 0..255 and a source that is absent (None)
\* or a text of the SourceTable.
C12_CachedStateWellTyped ==
    \A c \in Constructed :
        /\ ctl[c].power[1].t = "bool"
        /\ ctl[c].mute[1].t = "bool"
        /\ ctl[c].volume[1].t = "int"
        /\ ctl[c].volume[1].n \in 0..255
        /\ ctl[c].source[1] = PyNone \/ IsSourceText(ctl[c].source[1])

\* C13: the cached state of a constructed controller is changed only by the
\* delivery of an event published for its own zone; no command operation
\* changes a cached field of any controller.
C13_OnlyEventsChangeCache ==
    [][/\ last'.op \in CommandOps => ctl' = ctl
       /\ \A c \in Constructed :
            ctl'[c] # ctl[c] =>
                /\ last'.op = "run"
                /\ last'.published # <<>>
                /\ last'.published[1][1] = ctl[c].zone]_vars

\* C13 witness: power_on() has written its command with the port open, and the
\* controller still caches power false.
C13_Witness ==
    /\ last.op = "power_on"
    /\ last.written # <<>>
    /\ ctl[last.who].power = <<PyBool(FALSE)>>

\* the first zone, in the configuration's order, whose command table has the code
FirstZoneOf(cfg, code) ==
    cfg[CHOOSE i \in 1..Len(cfg) :
            /\ \E k \in 1..Len(cfg[i].commands) : cfg[i].commands[k][2] = code
            /\ \A j \in 1..(i - 1) :
                    \A k \in 1..Len(cfg[j].commands) : cfg[j].commands[k][2] # code].zone

\* C14 as stated: an event published for a frame is for the first zone, in the
\* configuration's order, whose command table has the frame's code, and for
\* that zone only.
C14_FirstMatchWins ==
    (/\ last.op = "run"
     /\ HasFrameForm(last.arg)
     /\ last.published # <<>>)
        => /\ Len(last.published) = 1
           /\ last.published[1][1] = FirstZoneOf(config, FrameCode(last.arg))

\* C15 as stated: the line the worker decodes is empty, or ends with the
\* sentinel and has no earlier sentinel; so an event is published only from a
\* line whose sentinel was received.
C15_FrameEmptyOrTerminated ==
    last.op = "run" =>
        /\ \/ last.arg = ""
           \/ /\ Terminated(last.arg)
              /\ \A k \in 1..(Len(last.arg) - 1) : Ch(last.arg, k) # SUB
        /\ last.published # <<>> => Terminated(last.arg)

\* C16: an iteration of the worker publishes at most one event, and when it
\* ends (before the next line is read) every subscribed controller of the
\* event's zone caches the event's value; so after two frames for the same zone
\* and property those controllers cache the value of the later frame.
C16_DeliveredBeforeNextFrame ==
    (last.op = "run" /\ last.published # <<>>) =>
        /\ Len(last.published) = 1
        /\ \A k \in 1..Len(handlers) :
                ctl[handlers[k]].zone = last.published[1][1] =>
                    ctl[handlers[k]][last.published[1][2]] = <<last.published[1][3]>>

\* C16 witness: the worker has published (master, power, true) and, in its next
\* iteration, (master, power, false); a constructed controller of master caches
\* false.
C16_Witness ==
    /\ last.op = "run"
    /\ last.prior = << <<"master", "power", PyBool(TRUE)>> >>
    /\ last.published = << <<"master", "power", PyBool(FALSE)>> >>
    /\ \E c \in Constructed :
            ctl[c].zone = "master" /\ ctl[c].power = <<PyBool(FALSE)>>

\* C17 as stated: once a controller has subscribed, a cached field that has a
\* value keeps it until a later event for the controller's zone and that
\* property is published, also while the controller's constructor is running.
C17_NoEventLost ==
    [][\A k \in 1..Len(handlers) :
        \A prop \in {"power", "volume", "source", "mute"} :
            (/\ prop \in DOMAIN ctl[handlers[k]]
             /\ ctl'[handlers[k]][prop] # ctl[handlers[k]][prop])
                => /\ last'.op = "run"
                   /\ last'.published # <<>>
                   /\ last'.published[1][1] = ctl[handlers[k]].zone
                   /\ last'.published[1][2] = prop]_vars

----------------------------------------------------------------------------
(* Construction on two caller threads: the statements of the constructors  *)
(* interleave.                                                             *)

InitRace ==
    /\ config \in Configs
    /\ ports = <<>>
    /\ serial = 0
    /\ workers = <<>>
    /\ worker_thread = 0
    /\ handlers = <<>>
    /\ ctl = <<>>
    /\ pc = [t \in {1, 2} |-> "idle"]
    /\ self = [t \in {1, 2} |-> 0]
    /\ last = Step("start", 0, "", NoOutput)

NextRace ==
    \/ \E t \in Threads, z \in ZoneNames(config) : init_begin(t, z)
    \/ \E t \in Threads : init_open(t)
    \/ \E t \in Threads : init_check_worker(t)
    \/ \E t \in Threads : init_start(t)
    \/ \E t \in Threads : init_subscribe(t)
    \/ \E t \in Threads : init_state(t)

SpecRace == InitRace /\ [][NextRace]_vars

\* C18 as stated: under every interleaving of two constructors the port is
\* opened at most once and at most one worker is started, and once both
\* constructors have returned both controllers are subscribed to the one worker
\* on the one port.
C18_RaceOpensOnce ==
    /\ Len(ports) <= 1
    /\ Len(workers) <= 1
    /\ Cardinality(Constructed) = 2 =>
            /\ worker_thread = 1
            /\ workers[worker_thread].port = serial
            /\ InList(1, handlers) /\ InList(2, handlers)

----------------------------------------------------------------------------
(* Command and notification together: a controller writes one command, the *)
(* device sends the written text back with the sentinel in place of the    *)
(* carriage return, and the worker processes that line.                    *)

\* the line the device sends back for a written command
Echo(data) == SubSeq(data, 1, Len(data) - 1) \o SUB

InitEcho ==
    \E lines \in Warmups : InitBuilt(<<"master", "zone2", "master">>, TRUE, lines)

NextEcho ==
    \/ /\ last.op = "start"
       /\ \E c \in 1..Len(ctl) :
            \/ power_on(c)
            \/ power_off(c)
            \/ mute_on(c)
            \/ mute_off(c)
            \/ \E level \in AllLevels : volume(c, level)
    \/ /\ last.op \in CommandOps
       /\ last.written # <<>>
       /\ run(1, Bytes(Echo(last.written[1].data)))

SpecEcho == InitEcho /\ [][NextEcho]_vars

\* no code is in the command tables of two zones
NoSharedCode(cfg) ==
    \A i \in 1..Len(cfg), j \in 1..Len(cfg) :
        (\E a \in 1..Len(cfg[i].commands), b \in 1..Len(cfg[j].commands) :
            cfg[i].commands[a][2] = cfg[j].commands[b][2]) => i = j

\* the property and the value that a command operation commands
CommandedProp(op) ==
    CASE op \in {"power_on", "power_off"} -> "power"
      [] op \in {"mute_on", "mute_off"} -> "mute"
      [] op = "volume" -> "volume"

CommandedValue(op, arg) ==
    CASE op \in {"power_on", "mute_on"} -> PyBool(TRUE)
      [] op \in {"power_off", "mute_off"} -> PyBool(FALSE)
      [] op = "volume" -> PyInt(arg)

\* C19: with no code shared by two zones, when the worker processes the echo of
\* the command that a controller of zone Z wrote for power_on, power_off,
\* mute_on, mute_off or volume(l), l in 0..255, every controller of zone Z then
\* caches the commanded value and no controller of another zone changes.
C19_EchoRoundTrip ==
    [][(/\ NoSharedCode(config)
        /\ last.op \in {"power_on", "power_off", "mute_on", "mute_off", "volume"}
        /\ last.op = "volume" => last.arg \in 0..255
        /\ last.written # <<>>
        /\ last'.op = "run"
        /\ last'.arg = Echo(last.written[1].data))
        => \A c \in 1..Len(ctl) :
                IF ctl[c].zone = ctl[last.who].zone
                THEN ctl'[c][CommandedProp(last.op)] =
                        <<CommandedValue(last.op, last.arg)>>
                ELSE ctl'[c] = ctl[c]]_vars

\* C19 witness: the echo of volume(200) written by the controller of zone2,
\* !1ZVLC8, has been processed: zone2 caches 200, the controllers of master
\* their initial 0.
C19_Witness ==
    /\ last.op = "run"
    /\ last.arg = "!1ZVLC8" \o SUB
    /\ last.published = << <<"zone2", "volume", PyInt(200)>> >>
    /\ ctl[2].volume = <<PyInt(200)>>
    /\ ctl[1].volume = <<PyInt(0)>>
    /\ ctl[3].volume = <<PyInt(0)>>

====
